---- MODULE Spec2Model ----
(***************************************************************************)
(* Document question-answering pipeline: the batch endpoint                *)
(* (app/api_main.py), the answer synthesizer (app/core/rag_handler.py),    *)
(* the document download/processing step (app/core/processing.py), the     *)
(* interactive chat script (app/app.py) and bulk ingestion                 *)
(* (scripts/ingest.py).                                                    *)
(*                                                                         *)
(* Python strings are modelled as sequences of tokens, so that an f-string *)
(* is a concatenation and "s contains t" is decidable; the empty string is *)
(* the empty sequence.  A Python dict is a TLA+ function whose DOMAIN is   *)
(* the dict's key set.  A float amount is an integer number of             *)
(* thousandths.                                                            *)
(***************************************************************************)
EXTENDS Integers, Sequences, FiniteSets, TLC

VARIABLES
    \* --- answer synthesizer called directly (rag_handler.py) ---
    call,            \* the arguments and collaborator outcomes of the current call
    response,        \* what the call gave its caller
    \* --- batch endpoint (api_main.py) ---
    request,         \* the HackathonRequest plus the Authorization header
    pc,              \* position of the handler
    all_chunks,      \* api_main.py:63
    vector_store,    \* api_main.py:84
    final_answers,   \* api_main.py:92
    http_status,     \* status of the HTTP response, 0 while running
    attempted,       \* history: the URLs download_and_process_document was called with
    docResults,      \* history: what each of those calls returned
    responses,       \* history: response_dict of each question answered
    synthLog,        \* history: the collaborator calls of each question answered
    tmp_files,       \* temporary files on disk that were created and not removed
    \* --- interactive script (app.py) ---
    uploaded_file,   \* value of the file_uploader widget
    cache,           \* st.cache_resource entries of get_vector_store_from_file
    session_state,   \* st.session_state, a dict
    msgDoc,          \* history: for each message, the file uploaded when it was appended
    \* --- bulk ingestion (scripts/ingest.py) ---
    raw_docs,        \* the directory RAW_DOCS_PATH
    persisted,       \* the index stored at PERSIST_DIRECTORY
    ingestPc,        \* position of main() in the current run
    documents,       \* ingest.py:77
    split_texts,     \* ingest.py:85
    counts,          \* history: the chunk count each run reported (ingest.py:86)
    priorIndex       \* history: the persisted index as the current run found it

synthVars == <<call, response>>
uiVars == <<uploaded_file, cache, session_state, msgDoc>>
ingestVars == <<raw_docs, persisted, ingestPc, documents, split_texts, counts,
                priorIndex>>
batchVars == <<request, pc, all_chunks, vector_store, final_answers, http_status,
               attempted, docResults, responses, synthLog, tmp_files>>
vars == <<synthVars, batchVars, uiVars, ingestVars>>

----------------------------------------------------------------------------
(* Bounds of the model. *)
MaxDocs == 2
MaxQuestions == 2
MaxMessages == 4
MaxFiles == 2
MaxRuns == 2

----------------------------------------------------------------------------
(* Strings *)

\* every token of t occurs in s, in order and contiguously
ContainsSeq(s, t) ==
    \E i \in 0..(Len(s) - Len(t)) : \A j \in 1..Len(t) : s[i + j] = t[j]

SeqsUpTo(S, n) == UNION {[1..k -> S] : k \in 0..n}

\* f"{amount:.2f}" of a non-negative amount given in thousandths
Fmt2(amount) ==
    LET cents == (amount + 5) \div 10
        frac  == cents % 100
    IN  <<ToString(cents \div 100), ".", ToString(frac \div 10), ToString(frac % 10)>>

----------------------------------------------------------------------------
(* rag_handler.py *)

None == [kind |-> "None", chunks |-> <<>>]
Chroma(chunks) == [kind |-> "Chroma", chunks |-> chunks]

\* Python truth value of a vector store argument.  None is false.  Whether a
\* Chroma object holding no chunk is false depends on the installed class
\* defining __len__; emptyFalsy carries that choice.
Truthy(vs, emptyFalsy) ==
    /\ vs.kind # "None"
    /\ ~(emptyFalsy /\ Len(vs.chunks) = 0)

\* Raw text the LLM may return: not JSON at all, or a JSON object in
\* which each schema field is absent, of the right type, or of a wrong type.
NoOutput == [json |-> FALSE, decision |-> <<>>, amount |-> [t |-> "absent", v |-> 0],
             justification |-> <<>>, source_clauses |-> <<>>]
JsonOutput(d, a) ==
    [json |-> TRUE, decision |-> <<d>>, amount |-> a,
     justification |-> <<"because">>, source_clauses |-> <<>>]
Decisions == {"Approved", "Rejected", "Information Not Found"}
RawAmounts == {[t |-> "number", v |-> 0], [t |-> "number", v |-> 35000],
               [t |-> "number", v |-> 1234],
               [t |-> "string", v |-> 0], [t |-> "absent", v |-> 0]}
LLMOutputs == {NoOutput} \cup {JsonOutput(d, a) : d \in Decisions, a \in RawAmounts}

\* PydanticOutputParser(PolicyDecision).parse: the text must be JSON and every
\* field of PolicyDecision present with its type (amount: float).
ParseOk(raw) == raw.json /\ raw.amount.t = "number"
Parse(raw) ==
    [decision |-> raw.decision, amount |-> raw.amount.v,
     justification |-> raw.justification, source_clauses |-> raw.source_clauses]

\* Outcomes of the collaborators during one call: which stage raises, if any,
\* and the raw text of the LLM when it answers.
Stages == {"setup", "retrieval", "llm", "none"}
SynthEnvs ==
    {[raises |-> s, raw |-> NoOutput, emptyFalsy |-> f] :
        s \in Stages \ {"none"}, f \in BOOLEAN}
    \cup {[raises |-> "none", raw |-> o, emptyFalsy |-> f] :
        o \in LLMOutputs, f \in BOOLEAN}

\* str(e) of the exception of a failing stage
ExcText(stage) ==
    CASE stage = "setup"     -> <<"llm client could not be created">>
      [] stage = "retrieval" -> <<"retriever failed">>
      [] stage = "llm"       -> <<"llm call failed">>
      [] stage = "parse"     -> <<"Failed to parse PolicyDecision from completion">>

\* the stage of the try block that raises, "none" when the block returns
FailingStage(env) ==
    IF env.raises # "none" THEN env.raises
    ELSE IF ~ParseOk(env.raw) THEN "parse" ELSE "none"

\* collaborator calls made by the try block, in order
Invocations(env) ==
    CASE env.raises = "setup"     -> <<>>
      [] env.raises = "retrieval" -> <<"retriever">>
      [] env.raises = "llm"       -> <<"retriever", "llm">>
      [] OTHER                    -> <<"retriever", "llm", "parser">>

\* (mutation) an except clause that names the parser's exception only
CaughtParserOnly(stage) == stage = "parse"

\* the except clause: `except Exception` catches the exception of every stage
Caught(stage) == stage \in {"setup", "retrieval", "llm", "parse"}

Fallback(stage) ==
    [decision |-> <<"Error">>, amount |-> 0,
     justification |-> <<"An internal error occurred: ">> \o ExcText(stage),
     source_clauses |-> <<>>]

\* (mutation) the index is validated before the query
GetStructuredRagResponseIndexFirst(query, vs, env) ==
    IF ~Truthy(vs, env.emptyFalsy)
    THEN [ret |-> [error |-> <<"Vector store not found. Please process a document first.">>],
          raised |-> "none", calls |-> <<>>, failed |-> "none"]
    ELSE IF query = <<>>
    THEN [ret |-> [error |-> <<"Query cannot be empty.">>],
          raised |-> "none", calls |-> <<>>, failed |-> "none"]
    ELSE LET stage == FailingStage(env) IN
         IF stage = "none"
         THEN [ret |-> Parse(env.raw), raised |-> "none",
               calls |-> Invocations(env), failed |-> "none"]
         ELSE [ret |-> Fallback(stage), raised |-> "none",
               calls |-> Invocations(env), failed |-> stage]

\* get_structured_rag_response: ret is the returned dict, raised the stage whose
\* exception reached the caller ("none" when the function returned), calls the
\* collaborator calls made, failed the stage that raised inside the function.
GetStructuredRagResponse(query, vs, env) ==
    IF query = <<>>
    THEN [ret |-> [error |-> <<"Query cannot be empty.">>],
          raised |-> "none", calls |-> <<>>, failed |-> "none"]
    ELSE IF ~Truthy(vs, env.emptyFalsy)
    THEN [ret |-> [error |-> <<"Vector store not found. Please process a document first.">>],
          raised |-> "none", calls |-> <<>>, failed |-> "none"]
    ELSE LET stage == FailingStage(env) IN
         IF stage = "none"
         THEN [ret |-> Parse(env.raw), raised |-> "none",
               calls |-> Invocations(env), failed |-> "none"]
         ELSE IF Caught(stage)
         THEN [ret |-> Fallback(stage), raised |-> "none",
               calls |-> Invocations(env), failed |-> stage]
         ELSE [ret |-> [unwound |-> TRUE], raised |-> stage,
               calls |-> Invocations(env), failed |-> stage]

----------------------------------------------------------------------------
(* The synthesizer called directly with arbitrary arguments. *)

Queries == {<<>>, <<"q1">>, <<"q2">>}
Stores == {None, Chroma(<<>>), Chroma(<<[source |-> 1, page |-> 1, part |-> 1]>>)}

NoResponse == [ret |-> [pending |-> TRUE], raised |-> "none", calls |-> <<>>,
               failed |-> "none"]
NoCall == [query |-> <<>>, vector_store |-> None,
           env |-> [raises |-> "none", raw |-> NoOutput, emptyFalsy |-> FALSE],
           state |-> "idle"]

SynthIdle == call = NoCall /\ response = NoResponse

SynthInit ==
    /\ call \in [query : Queries, vector_store : Stores, env : SynthEnvs,
                 state : {"called"}]
    /\ response = NoResponse

SynthReturn ==
    /\ call.state = "called"
    /\ response' = GetStructuredRagResponse(call.query, call.vector_store, call.env)
    /\ call' = [call EXCEPT !.state = "returned"]
    /\ UNCHANGED <<batchVars, uiVars, ingestVars>>

\* the caller calls again with other arguments
SynthCall ==
    /\ call.state = "returned"
    /\ call' \in [query : Queries, vector_store : Stores, env : SynthEnvs,
                  state : {"called"}]
    /\ response' = NoResponse
    /\ UNCHANGED <<batchVars, uiVars, ingestVars>>

----------------------------------------------------------------------------
(* processing.py *)

chunk_size == 1200
chunk_overlap == 200

LOADER_MAPPING == {".pdf", ".docx", ".doc", ".txt", ".eml"}

\* What a URL serves: the HTTP outcome, and for the bytes served whether the
\* loader of their type reads them and the text lengths of the segments it yields.
Url(name, ext) == [name |-> name, ext |-> ext]
Urls == {Url("a", ".pdf"), Url("b", ".txt"), Url("c", ".xyz"),
         Url("gone", ".pdf"), Url("broken", ".pdf"), Url("empty", ".txt")}
Remote(url) ==
    CASE url.name = "a"      -> [http |-> "ok",  loads |-> TRUE,  segments |-> <<2000>>]
      [] url.name = "b"      -> [http |-> "ok",  loads |-> TRUE,  segments |-> <<800>>]
      [] url.name = "c"      -> [http |-> "ok",  loads |-> TRUE,  segments |-> <<800>>]
      [] url.name = "gone"   -> [http |-> "404", loads |-> TRUE,  segments |-> <<>>]
      [] url.name = "broken" -> [http |-> "ok",  loads |-> FALSE, segments |-> <<>>]
      [] url.name = "empty"  -> [http |-> "ok",  loads |-> TRUE,  segments |-> <<>>]

\* load_document: the loader of the extension, ValueError for any other extension
LoadDocument(name, ext, content) ==
    IF ext \in LOADER_MAPPING
    THEN IF content.loads
         THEN [raised |-> FALSE,
               documents |-> [k \in 1..Len(content.segments) |->
                                [source |-> name, page |-> k, len |-> content.segments[k]]]]
         ELSE [raised |-> TRUE, documents |-> <<>>]
    ELSE [raised |-> TRUE, documents |-> <<>>]

\* number of chunks RecursiveCharacterTextSplitter(chunk_size, chunk_overlap) cuts
\* a text of len characters into, taken for a text with no separator: windows of
\* chunk_size characters, each starting chunk_overlap before the end of the last
ChunkCount(len) ==
    IF len = 0 THEN 0
    ELSE IF len <= chunk_size THEN 1
    ELSE 1 + ((len - chunk_size) + (chunk_size - chunk_overlap) - 1)
                \div (chunk_size - chunk_overlap)

RECURSIVE SplitDocuments(_)
SplitDocuments(docs) ==
    IF docs = <<>> THEN <<>>
    ELSE LET d == Head(docs) IN
         [n \in 1..ChunkCount(d.len) |-> [source |-> d.source, page |-> d.page, part |-> n]]
         \o SplitDocuments(Tail(docs))

\* download_and_process_document: ret is the returned list, tmp the temporary
\* files (named by tmpname) the call leaves on disk, exit the path taken.
DownloadAndProcessDocument(url, tmpname) ==
    LET served == Remote(url) IN
    IF served.http # "ok"
    THEN [ret |-> <<>>, tmp |-> {}, exit |-> "download_error"]
    ELSE LET loaded == LoadDocument(tmpname, url.ext, served) IN
         IF loaded.raised
         THEN [ret |-> <<>>, tmp |-> {tmpname}, exit |-> "processing_error"]
         ELSE IF loaded.documents = <<>>
         THEN [ret |-> <<>>, tmp |-> {}, exit |-> "no_documents"]
         ELSE [ret |-> SplitDocuments(loaded.documents), tmp |-> {}, exit |-> "ok"]

----------------------------------------------------------------------------
(* api_main.py *)

API_KEY == <<"k3y">>
Headers == {<<>>, <<"Bearer ">> \o <<"other">>, <<"Bearer ">> \o API_KEY}

\* get_api_key: TRUE when the header is accepted
GetApiKey(api_key_header) ==
    ~(api_key_header = <<>> \/ api_key_header # <<"Bearer ">> \o API_KEY)

\* dict.get(key, default)
Get(d, key, default) == IF key \in DOMAIN d THEN d[key] ELSE default

\* (mutation) the error branch names the question and drops the error's text
FormatAnswerNoDetail(question, response_dict) ==
    IF "error" \in DOMAIN response_dict
    THEN <<"Error processing question '">> \o question \o <<"'">>
    ELSE <<"Decision: ">> \o Get(response_dict, "decision", <<"N/A">>)
            \o <<", Amount: ">> \o Fmt2(Get(response_dict, "amount", 0))
            \o <<", Justification: ">>
            \o Get(response_dict, "justification", <<"No justification available.">>)

\* the answer string built from response_dict (api_main.py:98-107)
FormatAnswer(question, response_dict) ==
    IF "error" \in DOMAIN response_dict
    THEN <<"Error processing question '">> \o question \o <<"': ">>
            \o response_dict["error"]
    ELSE <<"Decision: ">> \o Get(response_dict, "decision", <<"N/A">>)
            \o <<", Amount: ">> \o Fmt2(Get(response_dict, "amount", 0))
            \o <<", Justification: ">>
            \o Get(response_dict, "justification", <<"No justification available.">>)

\* (mutation) a failed document discards what was collected before it
ExtendChunksReset(chunks_so_far, chunks) ==
    IF chunks # <<>> THEN chunks_so_far \o chunks ELSE <<>>

\* all_chunks after one iteration of the document loop (api_main.py:69-73)
ExtendChunks(chunks_so_far, chunks) ==
    IF chunks # <<>> THEN chunks_so_far \o chunks ELSE chunks_so_far

\* (mutation) the newest answer is put first
AppendAnswerFirst(answers, answer_str) == <<answer_str>> \o answers

\* final_answers after one iteration of the question loop (api_main.py:109)
AppendAnswer(answers, answer_str) == Append(answers, answer_str)

\* Collaborator outcomes drawn for the questions of a batch request.
BatchEnvs ==
    {e \in SynthEnvs :
        /\ ~e.emptyFalsy
        /\ e.raises \in {"llm", "none"}
        /\ e.raw \in {NoOutput,
                      JsonOutput("Approved", [t |-> "number", v |-> 35000]),
                      JsonOutput("Rejected", [t |-> "number", v |-> 0])}}

BatchIdle ==
    /\ request = [header |-> <<>>, documents |-> <<>>, questions |-> <<>>]
    /\ pc = "idle"
    /\ all_chunks = <<>>
    /\ vector_store = None
    /\ final_answers = <<>>
    /\ http_status = 0
    /\ attempted = <<>>
    /\ docResults = <<>>
    /\ responses = <<>>
    /\ synthLog = <<>>
    /\ tmp_files = {}

BatchInit ==
    /\ request \in [header : Headers,
                    documents : SeqsUpTo(Urls, MaxDocs),
                    questions : SeqsUpTo(Queries, MaxQuestions)]
    /\ pc = "auth"
    /\ all_chunks = <<>>
    /\ vector_store = None
    /\ final_answers = <<>>
    /\ http_status = 0
    /\ attempted = <<>>
    /\ docResults = <<>>
    /\ responses = <<>>
    /\ synthLog = <<>>
    /\ tmp_files = {}

\* Security(get_api_key): 401 unless the header is "Bearer <API_KEY>"
Authenticate ==
    /\ pc = "auth"
    /\ IF GetApiKey(request.header)
       THEN pc' = "documents" /\ UNCHANGED http_status
       ELSE pc' = "failed" /\ http_status' = 401
    /\ UNCHANGED <<request, all_chunks, vector_store, final_answers, attempted,
                   docResults, responses, synthLog, tmp_files>>
    /\ UNCHANGED <<synthVars, uiVars, ingestVars>>

\* one iteration of `for url in request.documents`
ProcessDocument ==
    /\ pc = "documents"
    /\ Len(attempted) < Len(request.documents)
    /\ LET url == request.documents[Len(attempted) + 1]
           got == DownloadAndProcessDocument(url, Len(attempted) + 1)
       IN  /\ all_chunks' = ExtendChunks(all_chunks, got.ret)
           /\ attempted' = Append(attempted, url)
           /\ docResults' = Append(docResults, got)
           /\ tmp_files' = tmp_files \cup got.tmp
    /\ UNCHANGED <<request, pc, vector_store, final_answers, http_status,
                   responses, synthLog>>
    /\ UNCHANGED <<synthVars, uiVars, ingestVars>>

\* `if not all_chunks: raise HTTPException(400)`
RejectNoDocuments ==
    /\ pc = "documents"
    /\ Len(attempted) = Len(request.documents)
    /\ all_chunks = <<>>
    /\ pc' = "failed"
    /\ http_status' = 400
    /\ UNCHANGED <<request, all_chunks, vector_store, final_answers, attempted,
                   docResults, responses, synthLog, tmp_files>>
    /\ UNCHANGED <<synthVars, uiVars, ingestVars>>

\* the try block of step B: embeddings and Chroma.from_documents succeed
CreateVectorStore ==
    /\ pc = "documents"
    /\ Len(attempted) = Len(request.documents)
    /\ all_chunks # <<>>
    /\ vector_store' = Chroma(all_chunks)
    /\ pc' = "questions"
    /\ UNCHANGED <<request, all_chunks, final_answers, http_status, attempted,
                   docResults, responses, synthLog, tmp_files>>
    /\ UNCHANGED <<synthVars, uiVars, ingestVars>>

\* (mutation) an index failure reported as a client error
CreateVectorStoreFails400 ==
    /\ pc = "documents"
    /\ Len(attempted) = Len(request.documents)
    /\ all_chunks # <<>>
    /\ pc' = "failed"
    /\ http_status' = 400
    /\ UNCHANGED <<request, all_chunks, vector_store, final_answers, attempted,
                   docResults, responses, synthLog, tmp_files>>
    /\ UNCHANGED <<synthVars, uiVars, ingestVars>>

\* the try block of step B raises: HTTPException(500)
CreateVectorStoreFails ==
    /\ pc = "documents"
    /\ Len(attempted) = Len(request.documents)
    /\ all_chunks # <<>>
    /\ pc' = "failed"
    /\ http_status' = 500
    /\ UNCHANGED <<request, all_chunks, vector_store, final_answers, attempted,
                   docResults, responses, synthLog, tmp_files>>
    /\ UNCHANGED <<synthVars, uiVars, ingestVars>>

\* one iteration of `for question in request.questions`; an exception leaving
\* get_structured_rag_response would leave the handler too
AnswerQuestion ==
    /\ pc = "questions"
    /\ Len(responses) < Len(request.questions)
    /\ \E env \in BatchEnvs :
        LET question == request.questions[Len(responses) + 1]
            r == GetStructuredRagResponse(question, vector_store, env)
        IN  /\ responses' = Append(responses, r.ret)
            /\ synthLog' = Append(synthLog, [calls |-> r.calls, failed |-> r.failed])
            /\ IF r.raised = "none"
               THEN /\ final_answers' =
                        AppendAnswer(final_answers, FormatAnswer(question, r.ret))
                    /\ UNCHANGED <<pc, http_status>>
               ELSE /\ pc' = "failed"
                    /\ http_status' = 500
                    /\ UNCHANGED final_answers
    /\ UNCHANGED <<request, all_chunks, vector_store, attempted, docResults, tmp_files>>
    /\ UNCHANGED <<synthVars, uiVars, ingestVars>>

\* `return HackathonResponse(answers=final_answers)`
Respond ==
    /\ pc = "questions"
    /\ Len(responses) = Len(request.questions)
    /\ pc' = "done"
    /\ http_status' = 200
    /\ UNCHANGED <<request, all_chunks, vector_store, final_answers, attempted,
                   docResults, responses, synthLog, tmp_files>>
    /\ UNCHANGED <<synthVars, uiVars, ingestVars>>

----------------------------------------------------------------------------
(* app.py: the script runs once per interaction; the widget value, the
   session state, the resource cache and the disk outlive a run. *)

NoFile == [name |-> "", ext |-> ""]
Uploads == {[name |-> "x", ext |-> ".pdf"], [name |-> "y", ext |-> ".txt"]}
Prompts == {<<"p1">>}

\* text lengths of the segments the loader reads from an uploaded file
UploadedSegments(file) == IF file.name = "x" THEN <<2000>> ELSE <<800>>

\* process_document_for_rag: load the file, split it, embed and index the
\* chunks; a loader or embedding failure raises.
ProcessDocumentForRag(filepath, file, outcome) ==
    IF outcome = "ok"
    THEN LET loaded == LoadDocument(filepath, file.ext,
                           [loads |-> TRUE, segments |-> UploadedSegments(file)])
         IN  IF loaded.raised
             THEN [raised |-> TRUE, store |-> None]
             ELSE [raised |-> FALSE, store |-> Chroma(SplitDocuments(loaded.documents))]
    ELSE [raised |-> TRUE, store |-> None]
ProcessOutcomes == {"ok", "load_error", "embedding_error"}

\* the body of get_vector_store_from_file (app.py:14-26)
VectorStoreFromFileBody(file, outcome) ==
    IF file # NoFile
    THEN LET tmp_filepath == file.name
             r == ProcessDocumentForRag(tmp_filepath, file, outcome)
         IN  IF r.raised
             THEN [ret |-> None, tmp |-> {tmp_filepath}]
             ELSE [ret |-> r.store, tmp |-> {}]
    ELSE [ret |-> None, tmp |-> {}]

\* get_vector_store_from_file under @st.cache_resource: a cached argument
\* returns the stored value without running the body
GetVectorStoreFromFile(file, entries, outcome) ==
    IF file \in DOMAIN entries
    THEN [ret |-> entries[file], cache |-> entries, tmp |-> {}]
    ELSE LET body == VectorStoreFromFileBody(file, outcome)
         IN  [ret |-> body.ret, cache |-> (file :> body.ret) @@ entries, tmp |-> body.tmp]

Message(role, content) == [role |-> role, content |-> content]

\* f"{amount:,.2f}" for the amounts below one thousand thousand
ResponseMd(response_dict) ==
    <<"**Decision:** ">> \o Get(response_dict, "decision", <<"N/A">>)
    \o <<"**Amount:** ">> \o Fmt2(Get(response_dict, "amount", 0))
    \o <<"**Justification:** ">>
    \o Get(response_dict, "justification", <<"No justification provided.">>)

UIEnvs ==
    {e \in SynthEnvs :
        /\ e.raises \in {"llm", "none"}
        /\ e.raw = JsonOutput("Approved", [t |-> "number", v |-> 35000])}

\* session_state with key set to value
SessionSet(state, key, value) == (key :> value) @@ state

\* section 6 of the script when there is no chat input: the history is created
\* if the chat is shown and has none
ShowChat(state) ==
    IF Get(state, "doc_processed", FALSE) /\ "messages" \notin DOMAIN state
    THEN SessionSet(state, "messages", <<>>)
    ELSE state

\* app.py:52-53
ProcessedSession(state) ==
    SessionSet(SessionSet(state, "doc_processed", TRUE), "messages", <<>>)

UIIdle ==
    /\ uploaded_file = NoFile
    /\ cache = <<>>
    /\ session_state = <<>>
    /\ msgDoc = <<>>

\* the user picks another file, or removes the file: a run with no button and
\* no chat input
UploadFile ==
    /\ \E f \in (Uploads \cup {NoFile}) \ {uploaded_file} : uploaded_file' = f
    /\ session_state' = ShowChat(session_state)
    /\ UNCHANGED <<cache, msgDoc, tmp_files>>
    /\ UNCHANGED <<synthVars, request, pc, all_chunks, vector_store, final_answers,
                   http_status, attempted, docResults, responses, synthLog>>
    /\ UNCHANGED ingestVars

\* the user clicks 'Process Document' (app.py:48-58, then section 6)
ClickProcess ==
    /\ IF uploaded_file # NoFile
       THEN \E outcome \in ProcessOutcomes, emptyFalsy \in BOOLEAN :
            LET got == GetVectorStoreFromFile(uploaded_file, cache, outcome) IN
            /\ cache' = got.cache
            /\ tmp_files' = tmp_files \cup got.tmp
            /\ IF Truthy(got.ret, emptyFalsy)
               THEN /\ session_state' = ShowChat(ProcessedSession(session_state))
                    /\ msgDoc' = <<>>
               ELSE /\ session_state' =
                        ShowChat(SessionSet(session_state, "doc_processed", FALSE))
                    /\ UNCHANGED msgDoc
       ELSE /\ session_state' = ShowChat(session_state)
            /\ UNCHANGED <<cache, tmp_files, msgDoc>>
    /\ UNCHANGED uploaded_file
    /\ UNCHANGED <<synthVars, request, pc, all_chunks, vector_store, final_answers,
                   http_status, attempted, docResults, responses, synthLog>>
    /\ UNCHANGED ingestVars

\* the user sends a chat input (app.py:61-111); the input exists only while
\* the chat is shown
ChatTurn ==
    /\ Get(session_state, "doc_processed", FALSE)
    /\ Len(Get(session_state, "messages", <<>>)) + 2 <= MaxMessages
    /\ \E prompt \in Prompts, outcome \in ProcessOutcomes, env \in UIEnvs :
        LET messages == Get(session_state, "messages", <<>>)
            asked == Append(messages, Message("user", prompt))
            got == GetVectorStoreFromFile(uploaded_file, cache, outcome)
            r == GetStructuredRagResponse(prompt, got.ret, env)
            content == IF "error" \in DOMAIN r.ret THEN r.ret["error"]
                       ELSE ResponseMd(r.ret)
        IN  /\ cache' = got.cache
            /\ tmp_files' = tmp_files \cup got.tmp
            /\ IF Truthy(got.ret, env.emptyFalsy)
               THEN /\ session_state' =
                        SessionSet(session_state, "messages",
                                   Append(asked, Message("assistant", content)))
                    /\ msgDoc' = msgDoc \o <<uploaded_file, uploaded_file>>
               ELSE /\ session_state' = SessionSet(session_state, "messages", asked)
                    /\ msgDoc' = Append(msgDoc, uploaded_file)
    /\ UNCHANGED uploaded_file
    /\ UNCHANGED <<synthVars, request, pc, all_chunks, vector_store, final_answers,
                   http_status, attempted, docResults, responses, synthLog>>
    /\ UNCHANGED ingestVars

----------------------------------------------------------------------------
(* ingest.py: each run of main() is a process of its own; the input directory
   and the persisted index are what one run leaves to the next. *)

INGEST_LOADER_MAPPING == {".pdf", ".docx", ".doc", ".txt", ".eml"}

\* Files the input directory may hold: whether the loader reads the file, and
\* the text lengths of the segments it yields.
RawFile(name, ext, loads, segments) ==
    [name |-> name, ext |-> ext, loads |-> loads, segments |-> segments]
RawFiles == {RawFile("a", ".pdf", TRUE, <<2000>>), RawFile("b", ".txt", TRUE, <<800>>),
             RawFile("notes", ".md", TRUE, <<800>>), RawFile("bad", ".pdf", FALSE, <<>>)}
NoDirectory == [exists |-> FALSE, files |-> {}]
Directories ==
    {NoDirectory} \cup
    {[exists |-> TRUE, files |-> F] : F \in {G \in SUBSET RawFiles : Cardinality(G) <= MaxFiles}}

\* os.listdir gives the entries in arbitrary order
Listings(files) ==
    {l \in [1..Cardinality(files) -> files] : \A i, j \in DOMAIN l : l[i] = l[j] => i = j}

NoIndex == [exists |-> FALSE, chunks |-> <<>>]
Index(chunks) == [exists |-> TRUE, chunks |-> chunks]
PriorIndexes == {NoIndex, Index(<<>>), Index(<<[source |-> "old", page |-> 1, part |-> 1]>>)}

\* the loop of load_documents_from_directory over a listing (ingest.py:45-62)
RECURSIVE LoadListing(_)
LoadListing(listing) ==
    IF listing = <<>> THEN <<>>
    ELSE LET f == Head(listing)
             loaded ==
                 IF f.ext \in INGEST_LOADER_MAPPING /\ f.loads
                 THEN [k \in 1..Len(f.segments) |->
                         [source |-> f.name, page |-> k, len |-> f.segments[k]]]
                 ELSE <<>>
         IN  loaded \o LoadListing(Tail(listing))

\* load_documents_from_directory
LoadDocumentsFromDirectory(directory, listing) ==
    IF ~directory.exists THEN <<>> ELSE LoadListing(listing)

\* Chroma.from_documents(..., persist_directory=...): the collection at the
\* directory, created if absent, receives the documents
PersistDocuments(stored, texts) ==
    IF stored.exists THEN Index(stored.chunks \o texts) ELSE Index(texts)

IngestIdle ==
    /\ raw_docs = NoDirectory
    /\ persisted = NoIndex
    /\ ingestPc = "idle"
    /\ documents = <<>>
    /\ split_texts = <<>>
    /\ counts = <<>>
    /\ priorIndex = NoIndex

IngestInit ==
    /\ raw_docs \in Directories
    /\ persisted \in PriorIndexes
    /\ ingestPc = "start"
    /\ documents = <<>>
    /\ split_texts = <<>>
    /\ counts = <<>>
    /\ priorIndex = persisted

\* (mutation) the old database is kept
KeepOldStore ==
    /\ ingestPc = "start"
    /\ ingestPc' = "load"
    /\ UNCHANGED <<raw_docs, persisted, documents, split_texts, counts, priorIndex>>
    /\ UNCHANGED <<synthVars, batchVars, uiVars>>

\* (mutation) the old database is removed only once documents were found
RemoveOldStoreIfDocuments ==
    /\ ingestPc = "start"
    /\ persisted' =
          IF persisted.exists
             /\ \E listing \in Listings(raw_docs.files) :
                    LoadDocumentsFromDirectory(raw_docs, listing) # <<>>
          THEN NoIndex ELSE persisted
    /\ ingestPc' = "load"
    /\ UNCHANGED <<raw_docs, documents, split_texts, counts, priorIndex>>
    /\ UNCHANGED <<synthVars, batchVars, uiVars>>

\* ingest.py:72-74
RemoveOldStore ==
    /\ ingestPc = "start"
    /\ persisted' = IF persisted.exists THEN NoIndex ELSE persisted
    /\ ingestPc' = "load"
    /\ UNCHANGED <<raw_docs, documents, split_texts, counts, priorIndex>>
    /\ UNCHANGED <<synthVars, batchVars, uiVars>>

\* ingest.py:77-80
LoadDocuments ==
    /\ ingestPc = "load"
    /\ \E listing \in Listings(raw_docs.files) :
        LET loaded == LoadDocumentsFromDirectory(raw_docs, listing) IN
        /\ documents' = loaded
        /\ ingestPc' = IF loaded = <<>> THEN "exited" ELSE "split"
    /\ UNCHANGED <<raw_docs, persisted, split_texts, counts, priorIndex>>
    /\ UNCHANGED <<synthVars, batchVars, uiVars>>

\* ingest.py:83-86
SplitIntoChunks ==
    /\ ingestPc = "split"
    /\ split_texts' = SplitDocuments(documents)
    /\ counts' = Append(counts, Len(SplitDocuments(documents)))
    /\ ingestPc' = "embed"
    /\ UNCHANGED <<raw_docs, persisted, documents, priorIndex>>
    /\ UNCHANGED <<synthVars, batchVars, uiVars>>

\* ingest.py:89-101, embedding and insertion succeed
PersistVectorStore ==
    /\ ingestPc = "embed"
    /\ persisted' = PersistDocuments(persisted, split_texts)
    /\ ingestPc' = "complete"
    /\ UNCHANGED <<raw_docs, documents, split_texts, counts, priorIndex>>
    /\ UNCHANGED <<synthVars, batchVars, uiVars>>

\* ingest.py:89-98 raise: the embedding model cannot be created (nothing is
\* written) or the embedding call fails after the store was opened (the
\* directory then holds a collection with no chunk of this run)
PersistVectorStoreFails ==
    /\ ingestPc = "embed"
    /\ \E opened \in BOOLEAN :
        persisted' = IF opened THEN PersistDocuments(persisted, <<>>) ELSE persisted
    /\ ingestPc' = "crashed"
    /\ UNCHANGED <<raw_docs, documents, split_texts, counts, priorIndex>>
    /\ UNCHANGED <<synthVars, batchVars, uiVars>>

\* main() is run again over the unchanged input directory
RunAgain ==
    /\ ingestPc \in {"exited", "complete", "crashed"}
    /\ Len(counts) < MaxRuns
    /\ ingestPc' = "start"
    /\ documents' = <<>>
    /\ split_texts' = <<>>
    /\ priorIndex' = persisted
    /\ UNCHANGED <<raw_docs, persisted, counts>>
    /\ UNCHANGED <<synthVars, batchVars, uiVars>>

----------------------------------------------------------------------------
(* Specifications: one per entry point. *)

InitSynth == SynthInit /\ BatchIdle /\ UIIdle /\ IngestIdle
SynthNext == SynthReturn \/ SynthCall
SpecSynth == InitSynth /\ [][SynthNext]_vars

InitBatch == BatchInit /\ SynthIdle /\ UIIdle /\ IngestIdle
BatchNext ==
    \/ Authenticate
    \/ ProcessDocument
    \/ RejectNoDocuments
    \/ CreateVectorStore
    \/ CreateVectorStoreFails
    \/ AnswerQuestion
    \/ Respond
SpecBatch == InitBatch /\ [][BatchNext]_vars

InitUI == UIIdle /\ SynthIdle /\ BatchIdle /\ IngestIdle
UINext == UploadFile \/ ClickProcess \/ ChatTurn
SpecUI == InitUI /\ [][UINext]_vars

InitIngest == IngestInit /\ SynthIdle /\ BatchIdle /\ UIIdle
IngestNext ==
    \/ RemoveOldStore
    \/ LoadDocuments
    \/ SplitIntoChunks
    \/ PersistVectorStore
    \/ PersistVectorStoreFails
    \/ RunAgain
SpecIngest == InitIngest /\ [][IngestNext]_vars

----------------------------------------------------------------------------
(* Properties of the batch endpoint (SpecBatch). *)

RECURSIVE Flatten(_)
Flatten(lists) ==
    IF lists = <<>> THEN <<>> ELSE Head(lists) \o Flatten(Tail(lists))

Returned(results) == [i \in 1..Len(results) |-> results[i].ret]

\* C1: a batch request that gets past authentication, document processing and
\* index construction returns exactly one answer per question, and the answer at
\* position i is the one formatted from the response to question i, whatever
\* the outcome of each question.
AnswersInInputOrder ==
    /\ pc \in {"questions", "done"} =>
          /\ Len(final_answers) = Len(responses)
          /\ \A i \in 1..Len(responses) :
                final_answers[i] = FormatAnswer(request.questions[i], responses[i])
    /\ pc = "done" => Len(final_answers) = Len(request.questions)

\* two different questions, the first rejected as empty, the second answered
AnswersInInputOrderWitness ==
    /\ pc = "done"
    /\ Len(request.questions) = 2
    /\ request.questions[1] = <<>>
    /\ request.questions[2] # <<>>
    /\ "error" \in DOMAIN responses[1]
    /\ Get(responses[2], "decision", <<>>) = <<"Approved">>

\* C2: a document for which download_and_process_document returns the empty
\* list is skipped: once the document loop is over every URL of the request has
\* been attempted, and the chunks collected (and the index built from them) are
\* exactly the chunks of the documents that succeeded, in document order, with
\* no chunk of a failed document.
FailedDocumentsSkipped ==
    (pc \in {"questions", "done"} \/ (pc = "failed" /\ http_status \in {400, 500})) =>
        /\ attempted = request.documents
        /\ \A i \in 1..Len(attempted) :
              docResults[i] = DownloadAndProcessDocument(request.documents[i], i)
        /\ all_chunks = Flatten(Returned(docResults))
        /\ \A j \in 1..Len(all_chunks) : docResults[all_chunks[j].source].exit = "ok"
        /\ vector_store # None => vector_store.chunks = all_chunks

\* an index built although the first document failed after the download and the
\* second succeeded
FailedDocumentsSkippedWitness ==
    /\ pc = "questions"
    /\ Len(request.documents) = 2
    /\ docResults[1].exit = "processing_error"
    /\ docResults[2].exit = "ok"
    /\ vector_store.chunks = docResults[2].ret

\* C3: an authenticated batch request fails at request level in exactly two
\* cases: 400 when no document yielded a chunk, before any index is built or
\* question answered, and 500 when index construction raised, before any
\* question is answered.  Otherwise it answers, and no failure of a question
\* makes the request fail.
RequestFailsOnlyWithoutIndex ==
    /\ (pc = "failed" /\ GetApiKey(request.header)) =>
          /\ vector_store = None
          /\ responses = <<>>
          /\ final_answers = <<>>
          /\ attempted = request.documents
          /\ \/ http_status = 400 /\ all_chunks = <<>>
             \/ http_status = 500 /\ all_chunks # <<>>
    /\ pc \in {"questions", "done"} =>
          /\ GetApiKey(request.header)
          /\ all_chunks # <<>>
          /\ vector_store = Chroma(all_chunks)
          /\ http_status = IF pc = "done" THEN 200 ELSE 0

\* index construction failed for a request that had chunks and questions
RequestFailsOnlyWithoutIndexWitness ==
    /\ pc = "failed"
    /\ http_status = 500
    /\ all_chunks # <<>>
    /\ Len(request.questions) = 2

\* C6: in batch mode a question whose synthesis fails, by a validation error or
\* by a failure of the LLM call or of the parse, gets at its own position an
\* answer string that contains the error's description; the other slots hold
\* the answers of their own questions and the request does not fail.
QuestionErrorsInline ==
    \A i \in 1..Len(responses) :
        ("error" \in DOMAIN responses[i] \/ synthLog[i].failed # "none") =>
            /\ pc \in {"questions", "done"}
            /\ http_status \in {0, 200}
            /\ Len(final_answers) = Len(responses)
            /\ "error" \in DOMAIN responses[i] =>
                  ContainsSeq(final_answers[i], responses[i]["error"])
            /\ synthLog[i].failed # "none" =>
                  ContainsSeq(final_answers[i], ExcText(synthLog[i].failed))
            /\ \A j \in 1..Len(responses) :
                  (j # i /\ "error" \notin DOMAIN responses[j]
                         /\ synthLog[j].failed = "none") =>
                      final_answers[j] =
                          <<"Decision: ">> \o responses[j].decision
                          \o <<", Amount: ">> \o Fmt2(responses[j].amount)
                          \o <<", Justification: ">> \o responses[j].justification

\* the LLM call of the first question failed, the second was approved
QuestionErrorsInlineWitness ==
    /\ pc = "done"
    /\ Len(responses) = 2
    /\ synthLog[1].failed = "llm"
    /\ synthLog[2].failed = "none"
    /\ "error" \notin DOMAIN responses[2]

----------------------------------------------------------------------------
(* Properties of the synthesizer (SpecSynth). *)

PolicyDecisionKeys == {"decision", "amount", "justification", "source_clauses"}

\* C4: get_structured_rag_response never raises to its caller, and for a
\* non-empty query and a present index, a failure of retrieval, of the LLM call
\* or of the schema parse gives the record decision "Error", amount 0.0, a
\* non-empty justification and no source clause; an index of zero chunks included.
SynthesizerNeverRaises ==
    call.state = "returned" =>
        /\ response.raised = "none"
        /\ (call.query # <<>> /\ call.vector_store # None
                /\ response.failed # "none") =>
              /\ DOMAIN response.ret = PolicyDecisionKeys
              /\ response.ret.decision = <<"Error">>
              /\ response.ret.amount = 0
              /\ response.ret.justification # <<>>
              /\ response.ret.source_clauses = <<>>
        /\ (call.query # <<>> /\ Truthy(call.vector_store, call.env.emptyFalsy)) =>
              (response.failed # "none"
                 <=> (call.env.raises # "none" \/ ~ParseOk(call.env.raw)))

\* the LLM call failed on an index of zero chunks
SynthesizerNeverRaisesWitness ==
    /\ call.state = "returned"
    /\ call.query # <<>>
    /\ call.vector_store = Chroma(<<>>)
    /\ response.failed = "llm"
    /\ response.calls = <<"retriever", "llm">>

\* C5: for an empty query, and for a missing index, the result carries only an
\* error message and neither the retriever nor the LLM is invoked; when the
\* query is empty and the index missing, the empty-query error is the result.
ValidationErrorsInvokeNothing ==
    call.state = "returned" =>
        /\ call.query = <<>> =>
              /\ response.ret = [error |-> <<"Query cannot be empty.">>]
              /\ response.calls = <<>>
        /\ (call.query # <<>> /\ call.vector_store = None) =>
              /\ response.ret =
                    [error |-> <<"Vector store not found. Please process a document first.">>]
              /\ response.calls = <<>>

\* an empty query with a missing index
ValidationErrorsInvokeNothingWitness ==
    /\ call.state = "returned"
    /\ call.query = <<>>
    /\ call.vector_store = None
    /\ DOMAIN response.ret = {"error"}

----------------------------------------------------------------------------
(* Properties of the interactive script (SpecUI). *)

\* C7: in interactive mode a new upload clears the message history and the
\* cached index: no chat turn is answered against the index of one document
\* while the history still holds messages from a previously uploaded document.
\* Every assistant message is the answer of a turn against the index of the
\* file uploaded at that turn, so each message before it must be of that file.
NoAnswerOverStaleHistory ==
    LET messages == Get(session_state, "messages", <<>>) IN
    \A i \in 1..Len(messages) :
        messages[i].role = "assistant" =>
            \A j \in 1..i : msgDoc[j] = msgDoc[i]

----------------------------------------------------------------------------
(* Properties of bulk ingestion (SpecIngest). *)

\* C8: ingestion is idempotent: from any prior state of the persisted index, a
\* run over an unchanged input directory removes the prior index and rebuilds
\* it, so consecutive runs report the same chunk count and the index persisted
\* by a run holds the chunks of that run only, none accumulated from before.
IngestionIdempotent ==
    /\ \A i, j \in 1..Len(counts) : counts[i] = counts[j]
    /\ ingestPc = "complete" =>
          /\ persisted = Index(split_texts)
          /\ Len(persisted.chunks) = counts[Len(counts)]
    /\ ingestPc \in {"load", "split", "embed", "exited"} => persisted = NoIndex

\* a second run completed over a directory whose first run had completed too
IngestionIdempotentWitness ==
    /\ ingestPc = "complete"
    /\ Len(counts) = 2
    /\ counts[1] = 3
    /\ Len(persisted.chunks) = 3

----------------------------------------------------------------------------
(* Temporary files and the amount of a decision. *)

\* C9: every temporary file created while a document is downloaded or an upload
\* handled is deleted by the time the operation returns, on every exit path.
\* Each action returns from the operation it calls, so no state may hold a
\* temporary file.
TemporaryFilesDeleted == tmp_files = {}

\* C10: a record returned by get_structured_rag_response that carries a
\* decision has amount 0.0 whenever the decision is not an approval, for every
\* LLM output that passes the PolicyDecision parse.
AmountZeroUnlessApproved ==
    (call.state = "returned" /\ "decision" \in DOMAIN response.ret
        /\ response.ret["decision"] # <<"Approved">>) =>
            response.ret["amount"] = 0

----------------------------------------------------------------------------
(* Ingestion runs that build nothing (SpecIngest). *)

\* no listing of the directory yields a document
NothingLoads(directory) ==
    \A listing \in Listings(directory.files) :
        LoadDocumentsFromDirectory(directory, listing) = <<>>

\* C11: in bulk ingestion the prior persisted index is removed before any
\* document is loaded: a run in which no document loads (missing directory, no
\* supported file, every loader failing) ends with the prior index deleted and
\* no new index created, and a run whose embedding or index build fails holds
\* no chunk of the prior index either.
PriorIndexGoneBeforeLoading ==
    /\ ingestPc = "load" => (persisted = NoIndex /\ documents = <<>>)
    /\ ingestPc = "exited" <=> (ingestPc \notin {"idle", "start", "load"}
                                 /\ NothingLoads(raw_docs))
    /\ ingestPc = "exited" => (persisted = NoIndex /\ documents = <<>>)
    /\ ingestPc = "crashed" => (persisted \in {NoIndex, Index(<<>>)})

\* a run over a directory whose only files are unsupported or unreadable ended
\* with nothing persisted, having found an index with a chunk
PriorIndexGoneBeforeLoadingWitness ==
    /\ ingestPc = "exited"
    /\ raw_docs.exists
    /\ Cardinality(raw_docs.files) = 2
    /\ priorIndex.chunks # <<>>
    /\ persisted = NoIndex

====
